---------------------------- MODULE Spec2Model ----------------------------
(***************************************************************************)
(* Model of the aggregation / ranking / deduplication engine of the movie  *)
(* API service (services/omdb.go) and of the two handlers that map its     *)
(* results to HTTP status codes (handlers/handlers.go).                    *)
(*                                                                         *)
(* Go strings are modelled as sequences of one-character strings, so that  *)
(* strings.ToLower, strings.Contains, strings.Split, string concatenation  *)
(* and strconv.ParseFloat are computed character by character.             *)
(***************************************************************************)
EXTENDS Integers, Sequences, FiniteSets, TLC

VARIABLES
    pc,          \* position of the running invocation
    level,       \* GetMovieRecommendations: the level being computed (1, 2, 3)
    genre,       \* SearchMoviesByGenre: the genre argument
    termIdx,     \* SearchMoviesByGenre: number of search terms already ranged over
    allMovies,   \* SearchMoviesByGenre: allMovies;  GetMovieRecommendations: levelNMovies
    favorite,    \* GetMovieRecommendations: favoriteTitle
    seed,        \* GetMovieRecommendations: favoriteMovie (the seed lookup's result)
    valIdx,      \* GetMovieRecommendations: attribute values already ranged over
    tiers,       \* GetMovieRecommendations: response.Recommendations
    result,      \* what the service call returned: [err, movies]
    status,      \* HTTP status code the handler answered with (0: none yet)
    net,         \* the calls made to the provider: searches and lookups issued so far,
                 \* whether a search failed, whether the last call failed, and the
                 \* last call: its arguments, the provider's answer, what it returned
    uIn,         \* utility check: the input slice
    uArg,        \* utility check: the limit or the genre the utility was applied with
    uOut,        \* utility check: the output of the first application
    uOut2        \* utility check: the output of the utility applied to its own output

vars == <<pc, level, genre, termIdx, allMovies, favorite, seed, valIdx, tiers, result,
          status, net, uIn, uArg, uOut, uOut2>>

pipeVars == <<level, genre, termIdx, allMovies, favorite, seed, valIdx, tiers, result,
              status, net>>

utilVars == <<uIn, uArg, uOut, uOut2>>

-----------------------------------------------------------------------------
(* Strings *)

UpperLetters == <<"A","B","C","D","E","F","G","H","I","J","K","L","M",
                  "N","O","P","Q","R","S","T","U","V","W","X","Y","Z">>

LowerLetters == <<"a","b","c","d","e","f","g","h","i","j","k","l","m",
                  "n","o","p","q","r","s","t","u","v","w","x","y","z">>

Digits == <<"0","1","2","3","4","5","6","7","8","9">>

\* a Go string literal as its sequence of characters
Str(lit) == [i \in 1..Len(lit) |-> SubSeq(lit, i, i)]

\* unicode.ToLower on one (ASCII) character
LowerOf == [c \in {UpperLetters[i] : i \in DOMAIN UpperLetters} |->
               LowerLetters[CHOOSE i \in DOMAIN UpperLetters : UpperLetters[i] = c]]

LowerChar(c) == IF c \in DOMAIN LowerOf THEN LowerOf[c] ELSE c

\* strings.ToLower
ToLower(s) == [i \in DOMAIN s |-> LowerChar(s[i])]

\* strings.Contains
Contains(s, substr) ==
    \E i \in 0..(Len(s) - Len(substr)) : SubSeq(s, i + 1, i + Len(substr)) = substr

\* strings.EqualFold (ASCII)
EqualFold(s, t) == ToLower(s) = ToLower(t)

\* strings.Index: the first position (from 1) at which sep occurs in s, 0 if none
Index(s, sep) ==
    LET hits == {i \in 1..(Len(s) - Len(sep) + 1) : SubSeq(s, i, i + Len(sep) - 1) = sep}
    IN  IF hits = {} THEN 0 ELSE CHOOSE i \in hits : \A j \in hits : i <= j

\* strings.Split with a non-empty separator
RECURSIVE Split(_, _)
Split(s, sep) ==
    LET i == Index(s, sep)
    IN  IF i = 0 THEN <<s>>
        ELSE <<SubSeq(s, 1, i - 1)>> \o Split(SubSeq(s, i + Len(sep), Len(s)), sep)

\* strconv.Itoa for a non-negative integer
RECURSIVE Itoa(_)
Itoa(n) == IF n < 10 THEN <<Digits[n + 1]>> ELSE Itoa(n \div 10) \o <<Digits[(n % 10) + 1]>>

-----------------------------------------------------------------------------
(* strconv.ParseFloat(s, 64), for the texts a rating can hold: a decimal   *)
(* literal (optional sign, digits, at most one point, at least one digit), *)
(* "NaN", or an optionally signed "Inf"/"Infinity", the special texts      *)
(* matched ignoring case.  Exponents and hexadecimal literals are not part *)
(* of the modelled rating texts.  The value of a decimal literal is kept   *)
(* exactly, as the fraction n/d; on a syntax error ParseFloat returns 0.   *)

IsDigit(c) == \E i \in DOMAIN Digits : Digits[i] = c

DigitVal(c) == (CHOOSE i \in DOMAIN Digits : Digits[i] = c) - 1

RECURSIVE DigitsVal(_)
DigitsVal(ds) ==
    IF ds = <<>> THEN 0
    ELSE 10 * DigitsVal(SubSeq(ds, 1, Len(ds) - 1)) + DigitVal(ds[Len(ds)])

RECURSIVE Pow10(_)
Pow10(k) == IF k = 0 THEN 1 ELSE 10 * Pow10(k - 1)

HasSign(s) == Len(s) > 0 /\ s[1] \in {"+", "-"}

Unsigned(s) == IF HasSign(s) THEN Tail(s) ELSE s

SignOf(s) == IF Len(s) > 0 /\ s[1] = "-" THEN -1 ELSE 1

IsNaNText(s) == ToLower(s) = Str("nan")

IsInfText(s) ==
    ToLower(Unsigned(s)) \in {Str("inf"), Str("infinity")}

IsDecimal(s) ==
    LET b == Unsigned(s)
    IN  /\ \A i \in DOMAIN b : IsDigit(b[i]) \/ b[i] = "."
        /\ Cardinality({i \in DOMAIN b : b[i] = "."}) <= 1
        /\ \E i \in DOMAIN b : IsDigit(b[i])

ParseFloat(s) ==
    IF IsNaNText(s) THEN [err |-> FALSE, kind |-> "nan", n |-> 0, d |-> 1]
    ELSE IF IsInfText(s) THEN [err |-> FALSE, kind |-> "inf", n |-> SignOf(s), d |-> 1]
    ELSE IF IsDecimal(s) THEN
        LET b    == Unsigned(s)
            dot  == Index(b, Str("."))
            frac == IF dot = 0 THEN 0 ELSE Len(b) - dot
        IN  [err |-> FALSE, kind |-> "num",
             n |-> SignOf(s) * DigitsVal(SelectSeq(b, IsDigit)), d |-> Pow10(frac)]
    ELSE [err |-> TRUE, kind |-> "num", n |-> 0, d |-> 1]

\* float64 x > y : false when either side is NaN
FloatGt(x, y) ==
    /\ x.kind # "nan"
    /\ y.kind # "nan"
    /\ IF x.kind = "inf" THEN x.n > 0 /\ ~(y.kind = "inf" /\ y.n > 0)
       ELSE IF y.kind = "inf" THEN y.n < 0
       ELSE x.n * y.d > y.n * x.d

\* float64 x > 0
FloatPositive(x) == x.kind # "nan" /\ x.n > 0

-----------------------------------------------------------------------------
(* The Dedup/Rank utility *)

\* models.MovieBrief, the fields the engine reads
MovieBrief(title, year, rating, g) ==
    [Title |-> title, Year |-> year, ImdbRating |-> rating, Genre |-> g]

\* a plausible slip: the key is not lower-cased
MovieKeyCaseSensitive(movie) == movie.Title \o movie.Year

\* key := strings.ToLower(movie.Title + movie.Year)
MovieKey(movie) == ToLower(movie.Title \o movie.Year)

\* a plausible slip: only the parse error is tested, not rating > 0
ValidRatingParsedOnly(rating) == ~ParseFloat(rating).err

\* rating, err := strconv.ParseFloat(movie.ImdbRating, 64); err == nil && rating > 0
ValidRating(rating) ==
    LET p == ParseFloat(rating) IN ~p.err /\ FloatPositive(p)

\* strings.Contains(strings.ToLower(movie.Genre), strings.ToLower(targetGenre))
GenreMatches(movie, targetGenre) == Contains(ToLower(movie.Genre), ToLower(targetGenre))

\* the comparator handed to sort.Slice: the parse error is dropped, the value compared
RatingLess(a, b) == FloatGt(ParseFloat(a.ImdbRating), ParseFloat(b.ImdbRating))

Swap(s, i, j) == [s EXCEPT ![i] = s[j], ![j] = s[i]]

\* inner loop of insertion sort: for j := i; j > a && less(j, j-1); j-- { swap(j, j-1) }
RECURSIVE InsertLeft(_, _)
InsertLeft(s, j) ==
    IF j > 1 /\ RatingLess(s[j], s[j - 1]) THEN InsertLeft(Swap(s, j, j - 1), j - 1) ELSE s

RECURSIVE InsertionSort(_, _)
InsertionSort(s, i) == IF i > Len(s) THEN s ELSE InsertionSort(InsertLeft(s, i), i + 1)

\* sort.Slice(movies, less) with less = RatingLess.  The Go runtime sorts a slice
\* of at most 12 elements by insertion sort, which is what is computed here; on a
\* longer slice whose ratings are all numbers the runtime's result is the same
\* ordering up to the order of equal ratings.
SortSlice(movies) == InsertionSort(movies, 2)

\* the loop of removeDuplicatesAndFilter
RECURSIVE FilterLoop(_, _, _, _, _)
FilterLoop(movies, i, seen, unique, targetGenre) ==
    IF i > Len(movies) THEN unique
    ELSE LET movie == movies[i]
             key   == MovieKey(movie)
         IN  IF /\ key \notin seen
                /\ GenreMatches(movie, targetGenre)
                /\ ValidRating(movie.ImdbRating)
             THEN FilterLoop(movies, i + 1, seen \cup {key}, Append(unique, movie),
                             targetGenre)
             ELSE FilterLoop(movies, i + 1, seen, unique, targetGenre)

removeDuplicatesAndFilter(movies, targetGenre) ==
    FilterLoop(movies, 1, {}, <<>>, targetGenre)

\* the loop of removeDuplicatesAndLimit: the bound is tested after the append
RECURSIVE LimitLoop(_, _, _, _, _)
LimitLoop(movies, i, seen, unique, limit) ==
    IF i > Len(movies) THEN unique
    ELSE LET movie == movies[i]
             key   == MovieKey(movie)
         IN  IF key \notin seen /\ ValidRating(movie.ImdbRating)
             THEN IF Len(unique) + 1 >= limit
                  THEN Append(unique, movie)
                  ELSE LimitLoop(movies, i + 1, seen \cup {key}, Append(unique, movie),
                                 limit)
             ELSE LimitLoop(movies, i + 1, seen, unique, limit)

removeDuplicatesAndLimit(movies, limit) ==
    LimitLoop(SortSlice(movies), 1, {}, <<>>, limit)

\* a plausible slip: one element too many is cut off
TruncateShort(movies, n) == IF Len(movies) >= n THEN SubSeq(movies, 1, n - 1) ELSE movies

\* if len(uniqueMovies) > 15 { uniqueMovies = uniqueMovies[:15] }
Truncate(movies, n) == IF Len(movies) > n THEN SubSeq(movies, 1, n) ELSE movies

\* the number of titles SearchMoviesByGenre returns at most
TopN == 15

\* the limit GetMovieRecommendations passes to removeDuplicatesAndLimit
TierLimit == 20

\* SearchMoviesByGenre stops issuing terms at this many accumulated candidates
EnoughMovies == 50

\* the tail of SearchMoviesByGenre: filter and deduplicate, sort, keep the top 15
GenreRanking(movies, targetGenre) ==
    Truncate(SortSlice(removeDuplicatesAndFilter(movies, targetGenre)), TopN)

-----------------------------------------------------------------------------
(* The utility applied to every short slice of candidates *)

MaxLen == 3

MaxLimit == 3

Str_NA == Str("N/A")

Str_Drama == Str("Drama")

UtilTargetGenres == { Str("drama"), Str("War") }

\* The candidates the slices are drawn from: two titles that differ in case only
\* and a third one, with ratings of every kind (decimal, negative, zero, empty,
\* "N/A", "NaN", "Inf") and a genre field that holds "War" or not.
UtilMovies ==
    { MovieBrief(Str("Up"), Str("12"), r, Str("War, Drama")) :
        r \in { Str("7.5"), Str("9"), Str("NaN") } }
    \cup { MovieBrief(Str("UP"), Str("12"), r, Str("War, Drama")) :
             r \in { Str("7.5"), Str("") } }
    \cup { MovieBrief(Str("It"), Str("2"), r, Str("War, Drama")) :
             r \in { Str("9"), Str("-2"), Str_NA, Str("Inf") } }
    \cup { MovieBrief(Str("Up"), Str("12"), Str("7.5"), Str_Drama) }

SeqUpTo(S, n) == UNION { [1..k -> S] : k \in 0..n }

NoArg == [op |-> "none"]

\* a Go error value: nil, or an error with its message
NilErr == [nil |-> TRUE, msg |-> <<>>]

Err(msg) == [nil |-> FALSE, msg |-> msg]

NoResult == [call |-> "none", err |-> NilErr, movies |-> <<>>]

NoSeed == [Response |-> <<>>]

\* no call to the provider was made yet
NoCall == [fn |-> "none"]

\* the utility named by arg, applied to movies
ApplyUtil(arg, movies) ==
    IF arg.op = "limit" THEN removeDuplicatesAndLimit(movies, arg.limit)
    ELSE IF arg.op = "filter" THEN removeDuplicatesAndFilter(movies, arg.genre)
    ELSE GenreRanking(movies, arg.genre)

UtilArgs ==
    {[op |-> "limit", limit |-> l] : l \in 0..MaxLimit}
    \cup {[op |-> o, genre |-> g] : o \in {"filter", "rank"}, g \in UtilTargetGenres}

IdleInit ==
    /\ level = 0
    /\ genre = <<>>
    /\ termIdx = 0
    /\ allMovies = <<>>
    /\ favorite = <<>>
    /\ seed = NoSeed
    /\ valIdx = 0
    /\ tiers = <<>>
    /\ result = NoResult
    /\ status = 0
    /\ net = [searches |-> 0, lookups |-> 0, failed |-> FALSE, lastErr |-> FALSE,
              last |-> NoCall]

UtilInit ==
    /\ pc = "util"
    /\ uIn \in SeqUpTo(UtilMovies, MaxLen)
    /\ uArg = NoArg
    /\ uOut = <<>>
    /\ uOut2 = <<>>
    /\ IdleInit

UtilApply ==
    /\ pc = "util"
    /\ \E arg \in UtilArgs :
          /\ uArg' = arg
          /\ uOut' = ApplyUtil(arg, uIn)
    /\ pc' = "util_once"
    /\ UNCHANGED <<uIn, uOut2>>
    /\ UNCHANGED pipeVars

UtilApplyAgain ==
    /\ pc = "util_once"
    /\ uOut2' = ApplyUtil(uArg, uOut)
    /\ pc' = "util_twice"
    /\ UNCHANGED <<uIn, uArg, uOut>>
    /\ UNCHANGED pipeVars

UtilNext == UtilApply \/ UtilApplyAgain

SpecUtil == UtilInit /\ [][UtilNext]_vars

-----------------------------------------------------------------------------
(* The upstream provider.  Its catalogue is a fixed list of title records;  *)
(* what it answers to one free-text search (a failure, "no results", or a   *)
(* list of hits) and to the per-hit lookups of that search is chosen anew   *)
(* at every call.                                                           *)

CatalogSize == 30

SmallHits == 3

CatalogTitle(i) == IF i = 2 THEN Str("m1") ELSE Str("M") \o Itoa(i)

CatalogRating(i) ==
    IF i % 10 = 4 THEN Str_NA
    ELSE IF i % 14 = 7 THEN Str("0")
    ELSE IF i % 11 = 0 THEN Str("")
    ELSE <<Digits[(i % 4) + 6]>> \o Str(".") \o <<Digits[((3 * i) % 10) + 1]>>

CatalogGenre(i) ==
    IF i % 6 = 0 THEN Str("Comedy")
    ELSE IF i % 2 = 0 THEN Str("Action, Drama")
    ELSE Str_Drama

\* models.OMDbResponse of a title the provider knows, the fields the engine reads
CatalogEntry(i) ==
    [Response |-> Str("True"), Title |-> CatalogTitle(i), Year |-> Str("2001"),
     ImdbRating |-> CatalogRating(i), Genre |-> CatalogGenre(i),
     Director |-> Str_NA, Actors |-> Str_NA]

Catalog == [i \in 1..CatalogSize |-> CatalogEntry(i)]

\* the provider's record for every title of its catalogue
DetailTable ==
    [t \in { Catalog[i].Title : i \in DOMAIN Catalog } |->
        Catalog[CHOOSE i \in DOMAIN Catalog : Catalog[i].Title = t]]

\* the provider's record for a title
Detail(title) == DetailTable[title]

\* models.SearchResponse.Search: the hits for the first n catalogue titles
Hits(n) == [i \in 1..n |-> [Title |-> Catalog[i].Title]]

HitLists == { Hits(SmallHits), Hits(CatalogSize) }

\* what the per-hit lookups of one search do: all succeed ("ok"), or the first of
\* every three fails in transport and the second is answered "not found"
\* ("flaky").  In a third pattern ("nearest"), met with the short hit list only,
\* the third of every three is resolved, by name, to the record of another title:
\* the lookup is by title, not by identifier.
LookupPatterns == {"ok", "flaky"}

LookupOutcome(pattern, p) ==
    IF pattern = "ok" THEN "ok"
    ELSE IF pattern = "flaky"
         THEN IF p % 3 = 1 THEN "err"
              ELSE IF p % 3 = 2 THEN "False"
              ELSE "ok"
    ELSE IF p % 3 = 0 THEN "other"
    ELSE "ok"

\* movieDetails of GetMovieByTitle(result.Title) when the lookup is answered with
\* a record: the record of that title, or the record of the title before it
Resolved(hits, p, outcome) ==
    IF outcome = "other" THEN Catalog[p - 1] ELSE Detail(hits[p].Title)

UpstreamAnswers ==
    { [search |-> "err"], [search |-> "False"] }
    \cup { [search |-> "True", hits |-> h, lookup |-> pat] :
             h \in HitLists, pat \in LookupPatterns }
    \cup { [search |-> "True", hits |-> Hits(SmallHits), lookup |-> "nearest"] }

\* Only the first RichTerms search terms of one genre ranking are answered with
\* every answer above; a later term is answered with a failure, with "no
\* results", or with the whole catalogue and lookups that all succeed.
RichTerms == 1

CoarseAnswers ==
    { [search |-> "err"], [search |-> "False"],
      [search |-> "True", hits |-> Hits(CatalogSize), lookup |-> "ok"] }

AnswersToTerm(k) == IF k <= RichTerms THEN UpstreamAnswers ELSE CoarseAnswers

\* models.MovieBrief{Title: movieDetails.Title, ...}
BriefOf(movieDetails) ==
    MovieBrief(movieDetails.Title, movieDetails.Year, movieDetails.ImdbRating,
               movieDetails.Genre)

\* a plausible slip: a hit that cannot be resolved ends the loop over the hits
SkipHitAbort(movies) == [movies |-> movies, stop |-> TRUE]

\* if err != nil { continue };  if movieDetails.Response == "False" { continue }
SkipHit(movies) == [movies |-> movies, stop |-> FALSE]

\* the lookup of a hit failed in transport or was answered "not found"
Unresolved(outcome) == outcome \in {"err", "False"}

\* the per-hit loop of searchMovies; the lookups it issued are counted
RECURSIVE ResolveGenre(_, _, _, _, _, _)
ResolveGenre(hits, p, lookup, targetGenre, movies, issued) ==
    IF p > Len(hits) THEN [err |-> FALSE, movies |-> movies, lookups |-> issued]
    ELSE LET outcome == LookupOutcome(lookup, p)
         IN  IF Unresolved(outcome)
             THEN LET skip == SkipHit(movies)
                  IN  IF skip.stop
                      THEN [err |-> FALSE, movies |-> skip.movies, lookups |-> issued + 1]
                      ELSE ResolveGenre(hits, p + 1, lookup, targetGenre, skip.movies,
                                        issued + 1)
             ELSE LET movieDetails == Resolved(hits, p, outcome)
                  IN  IF Contains(ToLower(movieDetails.Genre), ToLower(targetGenre))
                      THEN ResolveGenre(hits, p + 1, lookup, targetGenre,
                                        Append(movies, BriefOf(movieDetails)), issued + 1)
                      ELSE ResolveGenre(hits, p + 1, lookup, targetGenre, movies,
                                        issued + 1)

\* searchMovies(searchTerm, targetGenre), given the provider's answer
searchMovies(searchTerm, targetGenre, up) ==
    IF up.search = "err" THEN [err |-> TRUE, movies |-> <<>>, lookups |-> 0]
    ELSE IF up.search = "False" THEN [err |-> FALSE, movies |-> <<>>, lookups |-> 0]
    ELSE ResolveGenre(up.hits, 1, up.lookup, targetGenre, <<>>, 0)

\* the per-hit loop of searchMoviesForRecommendation
RECURSIVE ResolveExcluding(_, _, _, _, _, _)
ResolveExcluding(hits, p, lookup, excludeTitle, movies, issued) ==
    IF p > Len(hits) THEN [err |-> FALSE, movies |-> movies, lookups |-> issued]
    ELSE IF EqualFold(hits[p].Title, excludeTitle)
         THEN ResolveExcluding(hits, p + 1, lookup, excludeTitle, movies, issued)
    ELSE LET outcome == LookupOutcome(lookup, p)
         IN  IF Unresolved(outcome)
             THEN LET skip == SkipHit(movies)
                  IN  IF skip.stop
                      THEN [err |-> FALSE, movies |-> skip.movies, lookups |-> issued + 1]
                      ELSE ResolveExcluding(hits, p + 1, lookup, excludeTitle,
                                            skip.movies, issued + 1)
             ELSE ResolveExcluding(hits, p + 1, lookup, excludeTitle,
                                   Append(movies, BriefOf(Resolved(hits, p, outcome))),
                                   issued + 1)

\* searchMoviesForRecommendation(searchTerm, excludeTitle), given the provider's answer
searchMoviesForRecommendation(searchTerm, excludeTitle, up) ==
    IF up.search = "err" THEN [err |-> TRUE, movies |-> <<>>, lookups |-> 0]
    ELSE IF up.search = "False" THEN [err |-> FALSE, movies |-> <<>>, lookups |-> 0]
    ELSE ResolveExcluding(up.hits, 1, up.lookup, excludeTitle, <<>>, 0)

-----------------------------------------------------------------------------
(* HTTP status codes the handlers answer with *)

StatusOK == 200

StatusBadRequest == 400

StatusNotFound == 404

StatusInternalServerError == 500

\* a plausible slip: the handler does not test for an empty list
GenreStatusEmptyOK(movies, err) ==
    IF ~err.nil THEN StatusInternalServerError ELSE StatusOK

\* MovieHandler.GetMoviesByGenre, after the service call returned
GenreStatus(movies, err) ==
    IF ~err.nil THEN StatusInternalServerError
    ELSE IF Len(movies) = 0 THEN StatusNotFound
    ELSE StatusOK

\* MovieHandler.GetMovieRecommendations, after the service call returned
RecStatus(err, favoriteMovie) ==
    IF ~err.nil
    THEN IF err.msg = Str("movie not found: ") \o favoriteMovie
         THEN StatusNotFound
         ELSE StatusInternalServerError
    ELSE StatusOK

-----------------------------------------------------------------------------
(* SearchMoviesByGenre *)

CurrentYear == 2024

YearsBack == 10

\* a plausible slip: year > currentYear-10 instead of year >= currentYear-10
SearchTermsTenYears(g) ==
    << g, g \o Str(" movie"), Str("best ") \o g >>
    \o [k \in 1..YearsBack |-> g \o Str(" ") \o Itoa(CurrentYear - (k - 1))]

\* searchTerms
SearchTerms(g) ==
    << g, g \o Str(" movie"), Str("best ") \o g >>
    \o [k \in 1..(YearsBack + 1) |-> g \o Str(" ") \o Itoa(CurrentYear - (k - 1))]

\* a plausible slip: > instead of >=
EnoughStrict(movies) == Len(movies) > EnoughMovies

\* if len(allMovies) >= 50 { break }
Enough(movies) == Len(movies) >= EnoughMovies

GenreInputs == { Str(""), Str("drama"), Str("Comedy") }

\* the handler receives GET /api/movies/genre?genre=g
GenreRequest ==
    /\ pc = "idle"
    /\ \E g \in GenreInputs :
          /\ genre' = g
          /\ IF g = Str("")
             THEN /\ status' = StatusBadRequest
                  /\ pc' = "done"
             ELSE /\ status' = status
                  /\ pc' = "genre_loop"
    /\ termIdx' = 0
    /\ allMovies' = <<>>
    /\ UNCHANGED <<level, favorite, seed, valIdx, tiers, result, net>>
    /\ UNCHANGED utilVars

\* if err != nil { continue }
AfterTermErr(idx, movies, n) ==
    [termIdx |-> idx + 1, allMovies |-> movies, exit |-> idx + 1 = n]

\* allMovies = append(allMovies, movies...); break at 50, else the next term if any
AfterTermOk(idx, movies, found, n) ==
    LET all == movies \o found
    IN  [termIdx |-> idx + 1, allMovies |-> all, exit |-> Enough(all) \/ idx + 1 = n]

\* one iteration of the loop over searchTerms
GenreTerm ==
    /\ pc = "genre_loop"
    /\ termIdx < Len(SearchTerms(genre))
    /\ \E up \in AnswersToTerm(termIdx + 1) :
          LET r    == searchMovies(SearchTerms(genre)[termIdx + 1], genre, up)
              n    == Len(SearchTerms(genre))
              next == IF r.err THEN AfterTermErr(termIdx, allMovies, n)
                      ELSE AfterTermOk(termIdx, allMovies, r.movies, n)
          IN  /\ termIdx' = next.termIdx
              /\ allMovies' = next.allMovies
              /\ pc' = IF next.exit THEN "genre_rank" ELSE "genre_loop"
              /\ net' = [searches |-> net.searches + 1,
                         lookups  |-> net.lookups + r.lookups,
                         failed   |-> net.failed \/ r.err,
                         lastErr  |-> r.err,
                         last     |-> [fn |-> "searchMovies",
                                       searchTerm |-> SearchTerms(genre)[termIdx + 1],
                                       arg |-> genre, up |-> up, out |-> r]]
    /\ UNCHANGED <<level, genre, favorite, seed, valIdx, tiers, result, status>>
    /\ UNCHANGED utilVars

\* after the loop: filter, deduplicate, sort, truncate, return; the handler answers
GenreReturn ==
    /\ pc = "genre_rank"
    /\ LET uniqueMovies == GenreRanking(allMovies, genre)
       IN  /\ result' = [call |-> "genre", err |-> NilErr, movies |-> uniqueMovies]
           /\ status' = GenreStatus(uniqueMovies, NilErr)
    /\ pc' = "done"
    /\ UNCHANGED <<level, genre, termIdx, allMovies, favorite, seed, valIdx, tiers, net>>
    /\ UNCHANGED utilVars

-----------------------------------------------------------------------------
(* GetMovieRecommendations *)

FavoriteInputs == { Str(""), Str("M1") }

\* the records the provider may answer the seed lookup with
SeedRecord(g, director, actors) ==
    [Response |-> Str("True"), Title |-> Str("M1"), Year |-> Str("2001"),
     ImdbRating |-> Str("8.8"), Genre |-> g, Director |-> director, Actors |-> actors]

SeedRecords ==
    { SeedRecord(Str("Action, Drama"), Str_NA, Str("Al, Bo, Cy")),
      SeedRecord(Str_Drama, Str("Ann, Bob"), Str_NA),
      SeedRecord(Str_NA, Str(""), Str("Al")) }

\* the provider's "not found" answer: Response "False", every other field empty
NotFoundRecord ==
    [Response |-> Str("False"), Title |-> Str(""), Year |-> Str(""),
     ImdbRating |-> Str(""), Genre |-> Str(""), Director |-> Str(""), Actors |-> Str("")]

\* the messages of the errors makeRequest wraps
TransportErrors ==
    { Str("failed to make request: EOF"), Str("failed to parse response: EOF") }

\* what GetMovieByTitle(favoriteTitle) returns
SeedAnswers ==
    { [err |-> Err(m), rec |-> NoSeed] : m \in TransportErrors }
    \cup { [err |-> NilErr, rec |-> NotFoundRecord] }
    \cup { [err |-> NilErr, rec |-> r] : r \in SeedRecords }

\* the handler receives GET /api/recommendations?favorite_movie=f
RecRequest ==
    /\ pc = "idle"
    /\ \E f \in FavoriteInputs :
          /\ favorite' = f
          /\ IF f = Str("")
             THEN /\ status' = StatusBadRequest
                  /\ pc' = "done"
             ELSE /\ status' = status
                  /\ pc' = "rec_seed"
    /\ UNCHANGED <<level, genre, termIdx, allMovies, seed, valIdx, tiers, result, net>>
    /\ UNCHANGED utilVars

\* a plausible slip: the provider's "False" flag on the seed is not tested
SeedMissingIgnored(favoriteMovie) == FALSE

\* if favoriteMovie.Response == "False"
SeedMissing(favoriteMovie) == favoriteMovie.Response = Str("False")

\* the seed lookup and the two early returns of GetMovieRecommendations
RecSeedLookup ==
    /\ pc = "rec_seed"
    /\ \E ans \in SeedAnswers :
          /\ net' = [net EXCEPT !.lookups = @ + 1, !.lastErr = ~ans.err.nil,
                                !.last = [fn |-> "GetMovieByTitle"]]
          /\ seed' = ans.rec
          /\ IF ~ans.err.nil
             THEN /\ result' = [call |-> "rec", err |-> ans.err, movies |-> <<>>]
                  /\ status' = RecStatus(ans.err, favorite)
                  /\ pc' = "done"
                  /\ level' = level
             ELSE IF SeedMissing(ans.rec)
             THEN /\ result' = [call |-> "rec",
                                err |-> Err(Str("movie not found: ") \o favorite),
                                movies |-> <<>>]
                  /\ status' = RecStatus(Err(Str("movie not found: ") \o favorite), favorite)
                  /\ pc' = "done"
                  /\ level' = level
             ELSE /\ result' = result
                  /\ status' = status
                  /\ pc' = "rec_values"
                  /\ level' = 1
    /\ valIdx' = 0
    /\ allMovies' = <<>>
    /\ tiers' = <<>>
    /\ UNCHANGED <<genre, termIdx, favorite>>
    /\ UNCHANGED utilVars

\* for i, actor := range actors { if i >= 2 { break } ... }
MainActors == 2

\* the values one level's loop ranges over
LevelValues(favoriteMovie, lvl) ==
    IF lvl = 1 THEN Split(favoriteMovie.Genre, Str(", "))
    ELSE IF lvl = 2 THEN Split(favoriteMovie.Director, Str(", "))
    ELSE LET actors == Split(favoriteMovie.Actors, Str(", "))
         IN  SubSeq(actors, 1, IF Len(actors) < MainActors THEN Len(actors) ELSE MainActors)

\* if director != "N/A" && director != "" (levels 2 and 3; level 1 has no such test)
ValueSkipped(lvl, value) == lvl # 1 /\ (value = Str_NA \/ value = Str(""))

\* one iteration of a level's loop whose value is not searched
RecSkipValue ==
    /\ pc = "rec_values"
    /\ valIdx < Len(LevelValues(seed, level))
    /\ ValueSkipped(level, LevelValues(seed, level)[valIdx + 1])
    /\ valIdx' = valIdx + 1
    /\ UNCHANGED <<pc, level, genre, termIdx, allMovies, favorite, seed, tiers, result,
                   status, net>>
    /\ UNCHANGED utilVars

\* a plausible slip: a failed search returns from the whole call
RecAfterErrAbort(movies) == [allMovies |-> movies, abort |-> TRUE]

\* if err != nil { continue }
RecAfterErr(movies) == [allMovies |-> movies, abort |-> FALSE]

\* one iteration of a level's loop that searches
RecSearchValue ==
    /\ pc = "rec_values"
    /\ valIdx < Len(LevelValues(seed, level))
    /\ ~ValueSkipped(level, LevelValues(seed, level)[valIdx + 1])
    /\ \E up \in UpstreamAnswers :
          LET r    == searchMoviesForRecommendation(LevelValues(seed, level)[valIdx + 1],
                                                    favorite, up)
              next == IF r.err THEN RecAfterErr(allMovies)
                      ELSE [allMovies |-> allMovies \o r.movies, abort |-> FALSE]
          IN  /\ allMovies' = next.allMovies
              /\ net' = [searches |-> net.searches + 1,
                         lookups  |-> net.lookups + r.lookups,
                         failed   |-> net.failed \/ r.err,
                         lastErr  |-> r.err,
                         last     |-> [fn |-> "searchMoviesForRecommendation",
                                       searchTerm |-> LevelValues(seed, level)[valIdx + 1],
                                       arg |-> favorite, up |-> up, out |-> r]]
              /\ IF next.abort
                 THEN /\ result' = [call |-> "rec", err |-> Err(Str("search failed")),
                                    movies |-> <<>>]
                      /\ status' = StatusInternalServerError
                      /\ pc' = "done"
                 ELSE UNCHANGED <<result, status, pc>>
    /\ valIdx' = valIdx + 1
    /\ UNCHANGED <<level, genre, termIdx, favorite, seed, tiers>>
    /\ UNCHANGED utilVars

LevelDescription(lvl) ==
    IF lvl = 1 THEN "Movies in the same genre"
    ELSE IF lvl = 2 THEN "Movies by the same director"
    ELSE "Movies with the same main actors"

\* a plausible slip: the tier is appended without testing that it has members
WithTierAlways(recommendations, lvl, movies) ==
    Append(recommendations, [Level |-> lvl, Description |-> LevelDescription(lvl),
                             Movies |-> movies])

\* if len(levelNMovies) > 0 { response.Recommendations = append(...) }
WithTier(recommendations, lvl, movies) ==
    IF Len(movies) > 0
    THEN Append(recommendations, [Level |-> lvl, Description |-> LevelDescription(lvl),
                                  Movies |-> movies])
    ELSE recommendations

NumLevels == 3

\* after a level's loop: deduplicate and bound, append the tier; after level 3 return
RecLevelDone ==
    /\ pc = "rec_values"
    /\ valIdx = Len(LevelValues(seed, level))
    /\ tiers' = WithTier(tiers, level, removeDuplicatesAndLimit(allMovies, TierLimit))
    /\ IF level < NumLevels
       THEN /\ level' = level + 1
            /\ UNCHANGED <<pc, result, status>>
       ELSE /\ level' = level
            /\ pc' = "done"
            /\ result' = [call |-> "rec", err |-> NilErr, movies |-> <<>>]
            /\ status' = RecStatus(NilErr, favorite)
    /\ valIdx' = 0
    /\ allMovies' = <<>>
    /\ UNCHANGED <<genre, termIdx, favorite, seed, net>>
    /\ UNCHANGED utilVars

-----------------------------------------------------------------------------
(* One invocation of either pipeline *)

Init ==
    /\ pc = "idle"
    /\ uIn = <<>>
    /\ uArg = NoArg
    /\ uOut = <<>>
    /\ uOut2 = <<>>
    /\ IdleInit

Next ==
    \/ GenreRequest
    \/ GenreTerm
    \/ GenreReturn
    \/ RecRequest
    \/ RecSeedLookup
    \/ RecSkipValue
    \/ RecSearchValue
    \/ RecLevelDone

Spec == Init /\ [][Next]_vars

\* every slice the utility is applied to, and every invocation of a pipeline
SpecAll == (Init \/ UtilInit) /\ [][Next \/ UtilNext]_vars

-----------------------------------------------------------------------------
(* Properties *)

\* the canonical identity key: lower-case title followed by lower-case year
CanonicalKey(movie) == ToLower(movie.Title) \o ToLower(movie.Year)

\* the rating text is empty, "N/A", not a number, or a number that is not positive
InvalidRatingText(rating) ==
    \/ rating = Str("")
    \/ rating = Str("N/A")
    \/ ParseFloat(rating).err
    \/ ParseFloat(rating).kind = "nan"
    \/ ParseFloat(rating).n <= 0

\* rating of a is at least the rating of b, as numbers
RatingAtLeast(a, b) ==
    LET x == ParseFloat(a.ImdbRating)
        y == ParseFloat(b.ImdbRating)
    IN  x.kind # "nan" /\ y.kind # "nan" /\ ~FloatGt(y, x)

UtilApplied == pc \in {"util_once", "util_twice"}

\* the ranked outputs of the current state: what removeDuplicatesAndLimit and the
\* genre ranking returned to the utility check, the list SearchMoviesByGenre
\* returned, and the member list of every tier
RankedOutputs ==
    (IF UtilApplied /\ uArg.op \in {"limit", "rank"} THEN {uOut} ELSE {})
    \cup (IF pc = "util_twice" /\ uArg.op \in {"limit", "rank"} THEN {uOut2} ELSE {})
    \cup (IF result.call = "genre" THEN {result.movies} ELSE {})
    \cup {tiers[i].Movies : i \in DOMAIN tiers}

\* every output of the Dedup/Rank utility, sorted or not
UtilityOutputs ==
    RankedOutputs
    \cup (IF UtilApplied THEN {uOut} ELSE {})
    \cup (IF pc = "util_twice" THEN {uOut2} ELSE {})

\* C1: removeDuplicatesAndLimit returns at most `limit` elements, for every input
\* and every limit (and so every tier has at most 20 members).
C1_BoundRespected ==
    /\ (UtilApplied /\ uArg.op = "limit") => Len(uOut) <= uArg.limit
    /\ \A i \in DOMAIN tiers : Len(tiers[i].Movies) <= TierLimit

\* C2: every ranked output is non-increasing by numeric rating: each element's
\* rating is at least the rating of the element after it.
C2_RatingMonotone ==
    \A out \in RankedOutputs :
        \A i \in 1..(Len(out) - 1) : RatingAtLeast(out[i], out[i + 1])

\* C3: no two elements of a ranked output (nor of removeDuplicatesAndFilter's
\* output) share the canonical key lowercase(title) + lowercase(year).
C3_UniqueKeys ==
    \A out \in UtilityOutputs :
        \A i, j \in DOMAIN out : i # j => CanonicalKey(out[i]) # CanonicalKey(out[j])

\* C3 witness: SearchMoviesByGenre returned while its candidates held two titles
\* that differ in case only, both rated and of the genre; one of them was returned.
C3_Witness ==
    /\ pc = "done"
    /\ result.call = "genre"
    /\ \E i, j \in DOMAIN allMovies :
          /\ allMovies[i].Title # allMovies[j].Title
          /\ CanonicalKey(allMovies[i]) = CanonicalKey(allMovies[j])
          /\ ~InvalidRatingText(allMovies[i].ImdbRating)
          /\ ~InvalidRatingText(allMovies[j].ImdbRating)
          /\ \E k \in DOMAIN result.movies :
                CanonicalKey(result.movies[k]) = CanonicalKey(allMovies[i])

\* C4: an item whose rating is empty, "N/A", non-numeric or not positive never
\* appears in an output of the utility, of SearchMoviesByGenre or of a tier, and
\* no error comes of it: the genre ranking returns no error, and the
\* recommendation call returns one only when the seed was not resolved.
C4_InvalidExcluded ==
    /\ \A out \in UtilityOutputs :
          \A i \in DOMAIN out : ~InvalidRatingText(out[i].ImdbRating)
    /\ result.call = "genre" => result.err.nil
    /\ (result.call = "rec" /\ ~result.err.nil) => seed.Response # Str("True")

\* C4 witness: SearchMoviesByGenre returned titles, without error, from
\* candidates of the genre among which some had an invalid rating.
C4_Witness ==
    /\ pc = "done"
    /\ result.call = "genre"
    /\ result.err.nil
    /\ Len(result.movies) > 0
    /\ \E i \in DOMAIN allMovies :
          /\ InvalidRatingText(allMovies[i].ImdbRating)
          /\ Contains(ToLower(allMovies[i].Genre), ToLower(genre))

\* C5: applying removeDuplicatesAndLimit, or removeDuplicatesAndFilter, to its own
\* output with the same argument returns that output unchanged.
C5_Idempotent ==
    (pc = "util_twice" /\ uArg.op \in {"limit", "filter"}) => uOut2 = uOut

\* the accumulated candidates of the requested genre with a valid positive rating
Eligible(movies, g) ==
    { movies[i] : i \in { k \in DOMAIN movies :
                            /\ Contains(ToLower(movies[k].Genre), ToLower(g))
                            /\ ~InvalidRatingText(movies[k].ImdbRating) } }

\* K: the number of distinct canonical keys among the eligible candidates
DistinctEligible(movies, g) == Cardinality({ CanonicalKey(m) : m \in Eligible(movies, g) })

Min(a, b) == IF a < b THEN a ELSE b

\* C6: SearchMoviesByGenre returns exactly min(15, K) titles, K the number of
\* distinct canonical keys among the accumulated candidates of the genre with a
\* valid positive rating, and every returned title is one of those candidates.
C6_GenreCount ==
    result.call = "genre" =>
        /\ Len(result.movies) = Min(15, DistinctEligible(allMovies, genre))
        /\ \A k \in DOMAIN result.movies : result.movies[k] \in Eligible(allMovies, genre)

\* C6 witness: more than 15 distinct eligible titles among candidates that also
\* hold duplicates and invalid ratings; 15 were returned.
C6_Witness ==
    /\ pc = "done"
    /\ result.call = "genre"
    /\ DistinctEligible(allMovies, genre) > 15
    /\ Cardinality(Eligible(allMovies, genre)) > DistinctEligible(allMovies, genre)
    /\ \E i \in DOMAIN allMovies : allMovies[i].ImdbRating = Str("N/A")
    /\ Len(result.movies) = 15

GenreRunning == pc \in {"genre_loop", "genre_rank"} \/ result.call = "genre"

\* C7: in SearchMoviesByGenre, once the accumulated candidate count has reached 50
\* no further search is issued; the loop is left only at 50 candidates or more, or
\* when all 14 terms were issued, and while in the loop a term remains.
C7_EarlyTermination ==
    /\ [](pc = "genre_loop" => (Len(allMovies) < 50 /\ termIdx < 14))
    /\ [](pc = "genre_rank" => (Len(allMovies) >= 50 \/ termIdx = 14))
    /\ [][(GenreRunning /\ Len(allMovies) >= 50) => net'.searches = net.searches]_vars

\* C7 witness: the ranking returned after exactly 50 candidates, with terms left
\* unissued.
C7_Witness ==
    /\ pc = "done"
    /\ result.call = "genre"
    /\ Len(allMovies) = 50
    /\ net.searches < 14

\* C8: a failed search aborts nothing: the step that issued it keeps the
\* candidates and moves on to the next term or value, a pipeline in which a search
\* failed returns without error, and GetMovieRecommendations answers 500 only when
\* the seed lookup failed in transport.
C8_FailureSwallowed ==
    /\ [][(net'.searches = net.searches + 1 /\ net'.lastErr)
            => /\ allMovies' = allMovies
               /\ result' = result
               /\ \/ pc' = pc /\ (termIdx' = termIdx + 1 \/ valIdx' = valIdx + 1)
                  \/ pc = "genre_loop" /\ pc' = "genre_rank" /\ termIdx' = 14]_vars
    /\ []((pc = "done" /\ net.failed) => (result.err.nil /\ status # 500))
    /\ []((result.call = "genre") => result.err.nil)
    /\ []((result.call = "rec" /\ status = 500) => seed = NoSeed)

\* C8 witness: a recommendation call in which a search failed returned tiers.
C8_Witness ==
    /\ pc = "done"
    /\ result.call = "rec"
    /\ net.failed
    /\ result.err.nil
    /\ Len(tiers) > 0

\* C9: when the seed lookup answers "not found", the call returns the "movie not
\* found" error, which the handler answers with 404 and a transport failure with
\* 500; no search and no further lookup is issued and no tier is computed.
C9_SeedNotFound ==
    /\ seed.Response = Str("False") =>
          /\ pc = "done"
          /\ result.call = "rec"
          /\ result.err = Err(Str("movie not found: ") \o favorite)
          /\ status = 404
          /\ net.searches = 0
          /\ net.lookups = 1
          /\ tiers = <<>>
    /\ (result.call = "rec" /\ seed = NoSeed) => (~result.err.nil /\ status = 500)

\* C9 witness: the seed lookup answered "not found" and the handler answered.
C9_Witness ==
    /\ pc = "done"
    /\ seed.Response = Str("False")
    /\ status = 404

\* C10: the tier list holds only tiers with members, in strictly increasing level
\* order, each level with its label; no level-2 tier when the seed's director is
\* "N/A".
C10_TierList ==
    /\ \A i \in DOMAIN tiers :
          /\ Len(tiers[i].Movies) >= 1
          /\ \/ tiers[i].Level = 1 /\ tiers[i].Description = "Movies in the same genre"
             \/ tiers[i].Level = 2 /\ tiers[i].Description = "Movies by the same director"
             \/ tiers[i].Level = 3
                /\ tiers[i].Description = "Movies with the same main actors"
    /\ \A i \in 1..(Len(tiers) - 1) : tiers[i].Level < tiers[i + 1].Level
    /\ (pc # "idle" /\ seed.Response = Str("True") /\ seed.Director = Str("N/A"))
          => \A i \in DOMAIN tiers : tiers[i].Level # 2

\* C10 witness: a seed whose director is "N/A" got the tiers of levels 1 and 3.
C10_Witness ==
    /\ pc = "done"
    /\ seed.Response = Str("True")
    /\ seed.Director = Str("N/A")
    /\ Len(tiers) = 2
    /\ tiers[1].Level = 1
    /\ tiers[2].Level = 3

\* two titles are equal up to the case of their letters
SameTitle(a, b) == ToLower(a) = ToLower(b)

\* the last call to the provider was a search of the resolver named fn
LastCall(fn) == net.last.fn = fn

\* C11: searchMoviesForRecommendation, called with the seed title as the title to
\* exclude, returns no summary whose title equals the seed title up to case, and
\* no member of a tier has a title equal to the seed title up to case.
C11_SeedExcluded ==
    /\ LastCall("searchMoviesForRecommendation") =>
          \A i \in DOMAIN net.last.out.movies :
              ~SameTitle(net.last.out.movies[i].Title, net.last.arg)
    /\ \A t \in DOMAIN tiers :
          \A i \in DOMAIN tiers[t].Movies : ~SameTitle(tiers[t].Movies[i].Title, favorite)

RefValid(items) == SelectSeq(items, LAMBDA m : ~InvalidRatingText(m.ImdbRating))

\* the items of a sequence at the positions other than i
RefWithout(items, i) == SubSeq(items, 1, i - 1) \o SubSeq(items, i + 1, Len(items))

\* the first position whose rating no other item's rating exceeds
RefTop(items) ==
    CHOOSE i \in DOMAIN items :
        /\ \A j \in DOMAIN items : RatingAtLeast(items[i], items[j])
        /\ \A k \in 1..(i - 1) :
              \E j \in DOMAIN items : ~RatingAtLeast(items[k], items[j])

\* step 2: sort by rating descending (items of equal rating keep their order)
RECURSIVE RefSorted(_)
RefSorted(items) ==
    IF items = <<>> THEN <<>>
    ELSE <<items[RefTop(items)]>> \o RefSorted(RefWithout(items, RefTop(items)))

\* step 3: keep, of the items sharing a canonical key, the first one
RECURSIVE RefDedup(_)
RefDedup(items) ==
    IF items = <<>> THEN <<>>
    ELSE LET init == RefDedup(SubSeq(items, 1, Len(items) - 1))
             last == items[Len(items)]
         IN  IF \E i \in DOMAIN init : CanonicalKey(init[i]) = CanonicalKey(last)
             THEN init
             ELSE Append(init, last)

\* step 4: truncate to limit
RefBound(items, limit) == SubSeq(items, 1, Min(limit, Len(items)))

Reference(items, limit) == RefBound(RefDedup(RefSorted(RefValid(items))), limit)

\* C13: removeDuplicatesAndLimit returns what the reference procedure returns
\* (drop invalid ratings, sort by rating descending, deduplicate by canonical key
\* keeping the first, truncate to limit), for every input and limit; and a
\* returned item has the highest rating among the valid input items of its key.
C13_MatchesReference ==
    (UtilApplied /\ uArg.op = "limit") =>
        /\ uOut = Reference(uIn, uArg.limit)
        /\ \A i \in DOMAIN uOut :
              \A j \in DOMAIN uIn :
                  (/\ CanonicalKey(uIn[j]) = CanonicalKey(uOut[i])
                   /\ ~InvalidRatingText(uIn[j].ImdbRating))
                      => RatingAtLeast(uOut[i], uIn[j])

\* the k-th smallest member of a set of positions
NthOf(P, k) == CHOOSE p \in P : Cardinality({ q \in P : q < p }) = k - 1

\* the hits a search looks up: all of them, but for searchMoviesForRecommendation
\* those whose title equals the excluded title up to case
LookedUp(call) ==
    { p \in DOMAIN call.up.hits :
        call.fn = "searchMoviesForRecommendation"
            => ~SameTitle(call.up.hits[p].Title, call.arg) }

\* the record the lookup of hit p was answered with
RecordOf(call, p) == Resolved(call.up.hits, p, LookupOutcome(call.up.lookup, p))

\* the looked-up hits whose lookup was answered with a record (and, for
\* searchMovies, with a record of the genre)
Surviving(call) ==
    { p \in LookedUp(call) :
        /\ LookupOutcome(call.up.lookup, p) \notin {"err", "False"}
        /\ call.fn = "searchMovies"
              => Contains(ToLower(RecordOf(call, p).Genre), ToLower(call.arg)) }

\* the summaries of the surviving hits, in the order of the hits
SurvivingSummaries(call) ==
    [k \in 1..Cardinality(Surviving(call)) |->
        BriefOf(RecordOf(call, NthOf(Surviving(call), k)))]

\* the last call was a search of the resolver, and the provider answered it
ResolverAnswered ==
    /\ LastCall("searchMovies") \/ LastCall("searchMoviesForRecommendation")
    /\ net.last.up.search # "err"

\* C14: in searchMovies and searchMoviesForRecommendation, a lookup that fails in
\* transport or is answered "not found" skips that hit only: every hit (but the
\* excluded ones) is looked up, no error is returned, and the summaries of the
\* surviving hits are returned in the order of the hits; a search answered with
\* Response "False" returns the empty list, no error, and looks nothing up.
C14_HitSkipped ==
    ResolverAnswered =>
        /\ ~net.last.out.err
        /\ net.last.up.search = "False" =>
              (net.last.out.movies = <<>> /\ net.last.out.lookups = 0)
        /\ net.last.up.search = "True" =>
              /\ net.last.out.lookups = Cardinality(LookedUp(net.last))
              /\ net.last.out.movies = SurvivingSummaries(net.last)

\* C14 witness: a search of the recommendations whose lookups failed for some
\* hits, in transport and by "not found", returned the summaries of other hits.
C14_Witness ==
    /\ LastCall("searchMoviesForRecommendation")
    /\ net.last.up.search = "True"
    /\ \E p, q \in LookedUp(net.last) :
          /\ LookupOutcome(net.last.up.lookup, p) = "err"
          /\ LookupOutcome(net.last.up.lookup, q) = "False"
          /\ \E r \in Surviving(net.last) : r > p /\ r > q
    /\ Len(net.last.out.movies) > 0
    /\ ~net.last.out.err

\* the years of the search terms, as text, in the order of the terms
YearTexts ==
    << Str("2024"), Str("2023"), Str("2022"), Str("2021"), Str("2020"), Str("2019"),
       Str("2018"), Str("2017"), Str("2016"), Str("2015"), Str("2014") >>

\* the k-th search term of the genre ranking, as the claim lists them
ExpectedTerm(g, k) ==
    IF k = 1 THEN g
    ELSE IF k = 2 THEN g \o Str(" movie")
    ELSE IF k = 3 THEN Str("best ") \o g
    ELSE g \o Str(" ") \o YearTexts[k - 3]

=============================================================================
